---- MODULE Spec2Model ----
(***************************************************************************)
(* Relationship discovery engine of the AWS resource dashboard             *)
(* (server/aws.js, discoverResourceRelationships and its helpers) and the  *)
(* HTTP route GET /api/resource-relationships that serves its result.      *)
(*                                                                         *)
(* Strings on which the code performs string operations (split, endsWith,  *)
(* includes, template concatenation) are sequences of tokens; a token is   *)
(* a TLA+ string that the code never looks inside.                         *)
(***************************************************************************)
EXTENDS Integers, Sequences, FiniteSets, TLC

\* ------------------------------------------------------------------------
\* Bounds
\* ------------------------------------------------------------------------
\* largest number of resources in the inventory handed to one request
MaxResources == 3

\* largest inventory when two requests are in flight together
MaxPairResources == 3

\* resources in the inventory of a request that meets a provider fault
MaxFaultResources == 2

\* resources an inventory pull of the route returns besides the mock service
MaxRouteResources == 2

\* resources in an inventory of database clusters and instances
MaxDatabaseResources == 3

\* resources the page has loaded when the nodes of a graph are dragged and hovered
MaxGestureResources == 3

\* ------------------------------------------------------------------------
\* JavaScript values and string / array primitives
\* ------------------------------------------------------------------------
\* a string field that holds undefined
Undefined == <<"undefined">>

\* a scalar (protocol, port) that holds undefined
UndefinedScalar == "undefined"

\* an array-valued field that is absent from the object
Absent == <<"<absent>">>

Present(v) == v # Absent

\* String.prototype.endsWith
EndsWith(s, suffix) ==
  /\ Len(suffix) <= Len(s)
  /\ SubSeq(s, Len(s) - Len(suffix) + 1, Len(s)) = suffix

\* String.prototype.includes
StrIncludes(s, part) ==
  \E i \in 1..(Len(s) - Len(part) + 1) : SubSeq(s, i, i + Len(part) - 1) = part

\* Array.prototype.includes
ArrIncludes(arr, v) == \E i \in 1..Len(arr) : arr[i] = v

\* s.split(sep).pop(): the part of s after the last occurrence of sep
SplitPop(s, sep) ==
  LET cuts == {i \in 1..Len(s) : s[i] = sep}
      last == IF cuts = {} THEN 0 ELSE CHOOSE i \in cuts : \A j \in cuts : j <= i
  IN SubSeq(s, last + 1, Len(s))

\* s.split(sep): the pieces of s between the occurrences of sep
RECURSIVE Split(_, _)
Split(s, sep) ==
  LET cuts == {i \in 1..Len(s) : s[i] = sep}
  IN IF cuts = {} THEN <<s>>
     ELSE LET first == CHOOSE i \in cuts : \A j \in cuts : i <= j
          IN <<SubSeq(s, 1, first - 1)>> \o Split(SubSeq(s, first + 1, Len(s)), sep)

\* Array.prototype.find: index of the first element satisfying Test, 0 if none
FindIndex(arr, Test(_)) ==
  LET hits == {i \in 1..Len(arr) : Test(arr[i])}
  IN IF hits = {} THEN 0 ELSE CHOOSE i \in hits : \A j \in hits : i <= j

\* concatenation of a sequence of sequences (connections.push(...xs) in a loop)
RECURSIVE Flatten(_)
Flatten(ss) == IF ss = <<>> THEN <<>> ELSE Head(ss) \o Flatten(Tail(ss))

Range(f) == {f[i] : i \in DOMAIN f}

\* the text of a piece produced by Split, as one group id
RECURSIVE Text(_)
Text(piece) == IF piece = <<>> THEN "" ELSE Head(piece) \o Text(Tail(piece))

\* resource.tags.SecurityGroups.split(',')
TagGroups(tag) == LET pieces == Split(tag, ",") IN [k \in 1..Len(pieces) |-> Text(pieces[k])]

\* ------------------------------------------------------------------------
\* Resource descriptors (the objects built by the inventory functions)
\* ------------------------------------------------------------------------
\* the literal group id that getSecurityGroupConnections treats as mock data
MockSecurityGroupId == "sg-0123456789abcdef0"

RelationshipType ==
  [ROUTES_TO |-> "routes_to", DEPENDS_ON |-> "depends_on", TRIGGERS |-> "triggers",
   CONNECTS_TO |-> "connects_to", PART_OF |-> "part_of", INSTANCE_OF |-> "instance_of"]

\* One descriptor.  securityGroups is resource.securityGroups,
\* tagSecurityGroups is resource.tags.SecurityGroups (<<>> when the tag is
\* missing or empty, both falsy), netSecurityGroups is
\* resource.details.networkConfiguration.awsvpcConfiguration.securityGroups,
\* clusterName is resource.details.clusterName, clusterId is <<>> when falsy.
Resource(id, type, name, app, sgs, tagSgs, netSgs, clusterId, clusterName) ==
  [id |-> id, type |-> type, name |-> name, application |-> app,
   securityGroups |-> sgs, tagSecurityGroups |-> tagSgs, netSecurityGroups |-> netSgs,
   clusterId |-> clusterId, clusterName |-> clusterName]

\* getLoadBalancers: an application load balancer
ResAlb ==
  Resource(<<"arn", ":", "loadbalancer", "/", "web">>, "alb", <<"web">>, "shop",
           Absent, <<>>, Absent, <<>>, Undefined)

\* getLoadBalancers: a network load balancer
ResNlb ==
  Resource(<<"arn", ":", "loadbalancer", "/", "tcp">>, "nlb", <<"tcp">>, "Unknown",
           Absent, <<>>, Absent, <<>>, Undefined)

\* getLambdaFunctions
ResLambda ==
  Resource(<<"arn", ":", "function", ":", "orders">>, "lambda", <<"orders">>, "shop",
           Absent, <<>>, Absent, <<>>, Undefined)

\* getAPIGatewayResources: the id is the bare REST api id
ResApi ==
  Resource(<<"a1b2c3">>, "apigateway", <<"shop-api">>, "shop",
           Absent, <<>>, Absent, <<>>, Undefined)

\* getEventBridgeResources: a rule
ResRule ==
  Resource(<<"arn", ":", "rule", "/", "nightly">>, "eventbridge", <<"nightly">>, "Unknown",
           Absent, <<>>, Absent, <<>>, Undefined)

\* getStepFunctions
ResSfn ==
  Resource(<<"arn", ":", "stateMachine", ":", "flow">>, "stepfunctions", <<"flow">>, "shop",
           Absent, <<>>, Absent, <<>>, Undefined)

\* getEC2Instances: security groups only through the SecurityGroups tag
ResEc2A ==
  Resource(<<"i-0a">>, "ec2", <<"i-0a">>, "shop",
           Absent, <<"sg-a">>, Absent, <<>>, Undefined)

ResEc2B ==
  Resource(<<"i-0b">>, "ec2", <<"bastion">>, "Unknown",
           Absent, <<"sg-b", ",", "sg-x">>, Absent, <<>>, Undefined)

\* getAuroraClusters: no securityGroups field, name = DBClusterIdentifier
ResCluster ==
  Resource(<<"arn", ":", "cluster", ":", "db1">>, "aurora", <<"db1">>, "Unknown",
           Absent, <<>>, Absent, <<>>, Undefined)

\* getAuroraDBInstances: clusterId = DBClusterIdentifier, securityGroups from the VPC
ResInstance ==
  Resource(<<"arn", ":", "db", ":", "db1-a">>, "aurora-instance", <<"db1-a">>, "shop",
           <<"sg-d">>, <<>>, Absent, <<"db1">>, Undefined)

\* getAuroraDBInstances: an instance that names its cluster by the cluster's id
\* and has an empty list of VPC security groups
ResInstanceB ==
  Resource(<<"arn", ":", "db", ":", "db1-b">>, "aurora-instance", <<"db1-b">>, "Unknown",
           <<>>, <<>>, Absent, <<"arn", ":", "cluster", ":", "db1">>, Undefined)

\* getECSServices: a service whose groups are recorded in its tags
ResEcs ==
  Resource(<<"arn", ":", "service", "/", "all", "/", "cart">>, "ecs", <<"cart">>, "shop",
           Absent, <<"sg-e">>, Absent, <<>>, <<"all">>)

\* getECSServices: a service named service-test-2 of application test-app2
\* gets the fixed network configuration and keeps its SecurityGroups tag
ResEcsBoth ==
  Resource(<<"arn", ":", "service", "/", "prod", "/", "service-test-2">>, "ecs",
           <<"service-test-2">>, "test-app2",
           Absent, <<"sg-e">>, <<MockSecurityGroupId>>, <<>>, <<"prod">>)

\* getAllResources: the mock ECS service appended to every inventory
ResMockEcs ==
  Resource(<<"arn", ":", "service", "/", "devclust", "/", "service-test-2">>, "ecs",
           <<"service-test-2">>, "test-app2",
           Absent, <<>>, <<MockSecurityGroupId>>, <<>>, <<"devclust">>)

\* getAuroraDBInstances: the instance the mock rules are written for
ResMockDb ==
  Resource(<<"arn", ":", "db", ":", "database-2-instance-1">>, "aurora-instance",
           <<"database-2-instance-1">>, "test-app2",
           <<"sg-m">>, <<>>, Absent, <<"database-2">>, Undefined)

\* the descriptors an inventory pull can return, in the order in which
\* getAllResources concatenates the resource types of one region
Inventory ==
  <<ResEcs, ResEcsBoth, ResLambda, ResCluster, ResInstance, ResInstanceB, ResMockDb, ResEc2A, ResEc2B,
    ResSfn, ResApi, ResRule, ResAlb, ResNlb, ResMockEcs>>

\* getAuroraClusters in a second region of REGIONS: the same DBClusterIdentifier
\* as ResCluster under another ARN
ResClusterWest ==
  Resource(<<"arn-west", ":", "cluster", ":", "db1">>, "aurora", <<"db1">>, "Unknown",
           Absent, <<>>, Absent, <<>>, Undefined)

\* a cluster descriptor whose name is not the last segment of its id
ResClusterNamed ==
  Resource(<<"arn", ":", "cluster", ":", "db2">>, "aurora", <<"orders-db">>, "Unknown",
           Absent, <<>>, Absent, <<>>, Undefined)

\* an instance that names its cluster by the cluster's display name
ResInstanceNamed ==
  Resource(<<"arn", ":", "db", ":", "db2-a">>, "aurora-instance", <<"db2-a">>, "shop",
           <<"sg-d">>, <<>>, Absent, <<"orders-db">>, Undefined)

\* the database descriptors of an inventory, in the order of the regions
DatabaseInventory ==
  <<ResCluster, ResClusterNamed, ResInstance, ResInstanceB, ResInstanceNamed, ResClusterWest>>

\* ------------------------------------------------------------------------
\* Provider faults
\* ------------------------------------------------------------------------
\* the fault of the provider during the requests
VARIABLE
  fault            \* the provider call that errors or hangs, if any

\* the provider answers every call
NoFault == [mode |-> "none", call |-> "none", on |-> <<>>]

\* one provider call: the command sent and the resource or group it is sent for
Call(name, on) == [call |-> name, on |-> on]

\* a failure of one command that makes the same command fail for every resource
FailsAnywhere(name, on) == fault.mode = "error" /\ fault.call = name

\* client.send(...) rejects
Fails(name, on) == fault.mode = "error" /\ fault.call = name /\ fault.on = on

\* client.send(...) never settles
Hangs(name, on) == fault.mode = "hang" /\ fault.call = name /\ fault.on = on

\* the answer of ListTargetsByRule holds a target without an Arn
Malformed(on) == fault.mode = "malformed" /\ fault.on = on

\* ------------------------------------------------------------------------
\* Provider answers (static for the lifetime of the model)
\* ------------------------------------------------------------------------
\* getLoadBalancerTargets: the registered targets of a load balancer;
\* clusterName is the target's AvailabilityZone, "all" for targets outside the VPC
LoadBalancerTargets(loadBalancer) ==
  CASE loadBalancer.id = ResAlb.id ->
         << [targetId |-> ResEc2A.id, port |-> "80", protocol |-> "HTTP",
             clusterName |-> <<"us-east-1a">>],
            [targetId |-> <<"10.0.0.5">>, port |-> "8080", protocol |-> "HTTP",
             clusterName |-> <<"all">>] >>
    [] loadBalancer.id = ResNlb.id ->
         << [targetId |-> ResEc2B.id, port |-> "22", protocol |-> "TCP",
             clusterName |-> <<"us-east-1b">>],
            [targetId |-> <<"i-0gone">>, port |-> "22", protocol |-> "TCP",
             clusterName |-> <<"us-east-1b">>] >>
    [] OTHER -> <<>>

\* getLambdaTriggers: the (sourceArn, service) pairs of the invoke policy
LambdaTriggers(lambda) ==
  IF lambda.id = ResLambda.id
  THEN << [sourceArn |-> ResRule.id, eventType |-> "events.amazonaws.com"],
          [sourceArn |-> <<"arn", ":", "execute-api", ":", "a1b2c3", "/", "*">>,
           eventType |-> "apigateway.amazonaws.com"] >>
  ELSE <<>>

\* getLambdaDependencies: the environment variables that hold an ARN
LambdaDependencies(lambda) ==
  IF lambda.id = ResLambda.id
  THEN << [targetArn |-> ResSfn.id, accessType |-> "environment"],
          [targetArn |-> <<"arn", ":", "table", "/", "orders">>, accessType |-> "environment"] >>
  ELSE <<>>

\* getApiGatewayIntegrations: the path+method integrations of a REST api
ApiGatewayIntegrations(apiGateway) ==
  IF apiGateway.id = ResApi.id
  THEN LET uri == <<"arn", ":", "apigateway", ":", "path", "/", "functions", "/">>
                  \o ResLambda.id \o <<"/", "invocations">>
       IN << [uri |-> uri, method |-> "GET", path |-> "/orders"],
             [uri |-> uri, method |-> "POST", path |-> "/orders"],
             [uri |-> <<"https", ":", "//", "example.org">>, method |-> "GET",
              path |-> "/health"] >>
  ELSE <<>>

\* getEventBridgeTargets: the targets of a rule
EventBridgeTargets(eventBridge) ==
  IF eventBridge.id = ResRule.id
  THEN << [id |-> "t1", arn |-> ResLambda.id],
          [id |-> "t2", arn |-> ResSfn.id],
          [id |-> "t3", arn |-> <<"arn", ":", "queue", ":", "jobs">>] >>
  ELSE <<>>

\* getStepFunctionTargets: definition parsing is not implemented
StepFunctionTargets(stepFunction) == <<>>

\* getLoadBalancerTargets: the catch block answers [] for a rejected call
getLoadBalancerTargets(loadBalancer) ==
  IF Fails("DescribeTargetGroups", loadBalancer.id) THEN <<>>
  ELSE LoadBalancerTargets(loadBalancer)

\* getLambdaTriggers: the catch block answers [] for a rejected call
getLambdaTriggers(lambda) ==
  IF Fails("GetPolicy", lambda.id) THEN <<>> ELSE LambdaTriggers(lambda)

\* getLambdaDependencies: the catch block answers [] for a rejected call
getLambdaDependencies(lambda) ==
  IF Fails("GetFunction", lambda.id) THEN <<>> ELSE LambdaDependencies(lambda)

\* getApiGatewayIntegrations: the catch block answers [] for a rejected call
getApiGatewayIntegrations(apiGateway) ==
  IF Fails("GetResources", apiGateway.id) THEN <<>> ELSE ApiGatewayIntegrations(apiGateway)

\* getEventBridgeTargets: [] for a rejected call; a target without an Arn is
\* mapped to arn: undefined
getEventBridgeTargets(eventBridge) ==
  LET targets == EventBridgeTargets(eventBridge)
  IN IF Fails("ListTargetsByRule", eventBridge.id) THEN <<>>
     ELSE IF Malformed(eventBridge.id) /\ Len(targets) >= 2
     THEN [targets EXCEPT ![2].arn = Undefined]
     ELSE targets

\* one IpPermission of a security group
Rule(protocol, fromPort, toPort, pairs) ==
  [IpProtocol |-> protocol, FromPort |-> fromPort, ToPort |-> toPort,
   UserIdGroupPairs |-> pairs]

\* the security groups the provider knows, with their ingress and egress rules
SecurityGroups ==
  [g \in {"sg-a", "sg-b", "sg-x", "sg-d", "sg-e", "sg-m"} |->
     CASE g = "sg-a" ->
            [GroupId |-> g,
             IpPermissions |-> << Rule("tcp", "443", "443", <<>>) >>,
             IpPermissionsEgress |-> << Rule("-1", UndefinedScalar, UndefinedScalar, <<>>) >>]
       [] g = "sg-b" ->
            [GroupId |-> g,
             IpPermissions |-> << Rule("tcp", "3306", "3306", <<"sg-a">>) >>,
             IpPermissionsEgress |-> << Rule("-1", UndefinedScalar, UndefinedScalar, <<>>) >>]
       [] g = "sg-x" ->
            [GroupId |-> g,
             IpPermissions |-> <<>>,
             IpPermissionsEgress |-> << Rule("tcp", "443", "443", <<"sg-a">>) >>]
       [] g = "sg-d" ->
            [GroupId |-> g,
             IpPermissions |-> << Rule("tcp", "3306", "3306", <<"sg-e", "sg-d">>) >>,
             IpPermissionsEgress |-> <<>>]
       [] g = "sg-e" ->
            [GroupId |-> g,
             IpPermissions |-> << Rule("tcp", "8080", "8080", <<"sg-b">>) >>,
             IpPermissionsEgress |-> << Rule("tcp", "3306", "3306", <<"sg-d">>) >>]
       [] g = "sg-m" ->
            [GroupId |-> g,
             IpPermissions |-> << Rule("tcp", "3306", "3306", <<"sg-e">>) >>,
             IpPermissionsEgress |-> <<>>] ]

\* DescribeSecurityGroupsCommand({GroupIds}): the groups in request order;
\* the call is rejected when one of the ids is unknown to the provider
DescribeSecurityGroups(groupIds) ==
  IF \E i \in 1..Len(groupIds) :
        \/ groupIds[i] \notin DOMAIN SecurityGroups
        \/ Fails("DescribeSecurityGroups", <<groupIds[i]>>)
  THEN [ok |-> FALSE, SecurityGroups |-> <<>>]
  ELSE [ok |-> TRUE,
        SecurityGroups |-> [i \in 1..Len(groupIds) |-> SecurityGroups[groupIds[i]]]]


\* ------------------------------------------------------------------------
\* Relationships
\* ------------------------------------------------------------------------
\* an edge pushed without a metadata property
NoMetadata == [absent |-> TRUE]

Relationship(sourceId, targetId, type, metadata) ==
  [sourceId |-> sourceId, targetId |-> targetId, type |-> type, metadata |-> metadata]

SecurityGroupMetadata(source, target, protocol, fromPort, toPort, groupId, direction) ==
  [securityGroups |->
     [source |-> source, target |-> target,
      rules |-> << [protocol |-> protocol, fromPort |-> fromPort, toPort |-> toPort,
                    securityGroupId |-> groupId, direction |-> direction] >>]]

\* ------------------------------------------------------------------------
\* Security-group cross-reference resolver
\* ------------------------------------------------------------------------
\* the filter of processSecurityGroupRule: does resource r use group groupId
UsesGroup(r, groupId) ==
  IF Present(r.securityGroups) THEN ArrIncludes(r.securityGroups, groupId)
  ELSE IF r.tagSecurityGroups # <<>> THEN ArrIncludes(TagGroups(r.tagSecurityGroups), groupId)
  ELSE IF Present(r.netSecurityGroups) THEN ArrIncludes(r.netSecurityGroups, groupId)
  ELSE FALSE

\* source and target of the connection derived from one rule
ConnectionSourceId(direction, sourceResource, targetResource) ==
  IF direction = "inbound" THEN targetResource.id ELSE sourceResource.id

ConnectionTargetId(direction, sourceResource, targetResource) ==
  IF direction = "inbound" THEN sourceResource.id ELSE targetResource.id

IsMockDatabase(r) == r.name = <<"database-2-instance-1">> /\ r.application = "test-app2"

IsMockService(r) == r.name = <<"service-test-2">> /\ r.application = "test-app2"

processSecurityGroupRule(rule, sourceResource, allResources, sourceGroupId, direction) ==
  LET ecsIndex == FindIndex(allResources,
                    LAMBDA r : r.type = "ecs" /\ r.application = "test-app2"
                               /\ r.name = <<"service-test-2">>)
      mockConnections ==
        IF IsMockDatabase(sourceResource) /\ ecsIndex # 0
        THEN << Relationship(allResources[ecsIndex].id, sourceResource.id,
                             RelationshipType.CONNECTS_TO,
                             SecurityGroupMetadata(<<MockSecurityGroupId>>, <<sourceGroupId>>,
                                                   "tcp", "3306", "3306", sourceGroupId,
                                                   "inbound")) >>
        ELSE <<>>
      pairs == rule.UserIdGroupPairs
      ForReference(groupId) ==
        LET targetResources == SelectSeq(allResources, LAMBDA r : UsesGroup(r, groupId))
            others == SelectSeq(targetResources, LAMBDA r : r.id # sourceResource.id)
        IN [k \in 1..Len(others) |->
              Relationship(ConnectionSourceId(direction, sourceResource, others[k]),
                           ConnectionTargetId(direction, sourceResource, others[k]),
                           RelationshipType.CONNECTS_TO,
                           SecurityGroupMetadata(
                             IF direction = "inbound" THEN <<groupId>> ELSE <<sourceGroupId>>,
                             IF direction = "inbound" THEN <<sourceGroupId>> ELSE <<groupId>>,
                             rule.IpProtocol, rule.FromPort, rule.ToPort, groupId, direction))]
  IN mockConnections \o Flatten([k \in 1..Len(pairs) |-> ForReference(pairs[k])])

\* the group ids getSecurityGroupConnections works with
ResolverGroupIds(resource) ==
  IF Present(resource.securityGroups) THEN resource.securityGroups
  ELSE IF resource.tagSecurityGroups # <<>> THEN TagGroups(resource.tagSecurityGroups)
  ELSE IF Present(resource.netSecurityGroups) THEN resource.netSecurityGroups
  ELSE <<>>

getSecurityGroupConnections(resource, allResources) ==
  LET securityGroupIds == ResolverGroupIds(resource)
      hasMockSecurityGroups == ArrIncludes(securityGroupIds, MockSecurityGroupId)
      dbIndex == FindIndex(allResources,
                   LAMBDA r : r.type = "aurora-instance" /\ r.name = <<"database-2-instance-1">>)
      response == DescribeSecurityGroups(securityGroupIds)
      ForGroup(sg) ==
        Flatten([k \in 1..Len(sg.IpPermissions) |->
                   processSecurityGroupRule(sg.IpPermissions[k], resource, allResources,
                                            sg.GroupId, "inbound")])
        \o
        Flatten([k \in 1..Len(sg.IpPermissionsEgress) |->
                   processSecurityGroupRule(sg.IpPermissionsEgress[k], resource, allResources,
                                            sg.GroupId, "outbound")])
  IN IF Len(securityGroupIds) = 0 THEN <<>>
     ELSE IF hasMockSecurityGroups
     THEN IF IsMockDatabase(resource) THEN <<>>
          ELSE IF IsMockService(resource) /\ dbIndex # 0
          THEN << Relationship(resource.id, allResources[dbIndex].id,
                               RelationshipType.CONNECTS_TO,
                               SecurityGroupMetadata(
                                 <<MockSecurityGroupId>>,
                                 IF Present(allResources[dbIndex].securityGroups)
                                 THEN allResources[dbIndex].securityGroups ELSE <<>>,
                                 "tcp", "3306", "3306", MockSecurityGroupId, "outbound")) >>
          ELSE <<>>
     ELSE IF ~response.ok THEN <<>>
     ELSE Flatten([k \in 1..Len(response.SecurityGroups) |->
                     ForGroup(response.SecurityGroups[k])])


\* ------------------------------------------------------------------------
\* Type-specific extractors: the edges one iteration of the loop pushes
\* ------------------------------------------------------------------------
\* case 'alb' / 'nlb'
LoadBalancerEdges(resource, allResources) ==
  LET lbTargets == getLoadBalancerTargets(resource)
      Found(target) ==
        FindIndex(allResources,
          LAMBDA r : \/ (r.type = "ec2" /\ r.id = target.targetId)
                     \/ (r.type = "ecs" /\ r.clusterName = target.clusterName))
  IN Flatten([k \in 1..Len(lbTargets) |->
       IF Found(lbTargets[k]) = 0 THEN <<>>
       ELSE << Relationship(resource.id, allResources[Found(lbTargets[k])].id,
                            RelationshipType.ROUTES_TO,
                            [protocol |-> lbTargets[k].protocol,
                             port |-> lbTargets[k].port]) >>])

\* a trigger loop that pushes the policy's source ARN without resolving it
LambdaTriggerEdgesUnresolved(resource, allResources) ==
  LET lambdaTriggers == getLambdaTriggers(resource)
  IN [k \in 1..Len(lambdaTriggers) |->
        Relationship(lambdaTriggers[k].sourceArn, resource.id, RelationshipType.TRIGGERS,
                     [eventType |-> lambdaTriggers[k].eventType])]

\* case 'lambda': the trigger loop
LambdaTriggerEdges(resource, allResources) ==
  LET lambdaTriggers == getLambdaTriggers(resource)
      Found(trigger) == FindIndex(allResources, LAMBDA r : r.id = trigger.sourceArn)
  IN Flatten([k \in 1..Len(lambdaTriggers) |->
       IF Found(lambdaTriggers[k]) = 0 THEN <<>>
       ELSE << Relationship(allResources[Found(lambdaTriggers[k])].id, resource.id,
                            RelationshipType.TRIGGERS,
                            [eventType |-> lambdaTriggers[k].eventType]) >>])

\* case 'lambda': the dependency loop
LambdaDependencyEdges(resource, allResources) ==
  LET lambdaDependencies == getLambdaDependencies(resource)
      Found(dependency) == FindIndex(allResources, LAMBDA r : r.id = dependency.targetArn)
  IN Flatten([k \in 1..Len(lambdaDependencies) |->
       IF Found(lambdaDependencies[k]) = 0 THEN <<>>
       ELSE << Relationship(resource.id, allResources[Found(lambdaDependencies[k])].id,
                            RelationshipType.DEPENDS_ON,
                            [accessType |-> lambdaDependencies[k].accessType]) >>])

LambdaEdges(resource, allResources) ==
  LambdaTriggerEdges(resource, allResources) \o LambdaDependencyEdges(resource, allResources)

\* case 'apigateway'
ApiGatewayEdges(resource, allResources) ==
  LET apiIntegrations == getApiGatewayIntegrations(resource)
      Found(integration) ==
        FindIndex(allResources,
          LAMBDA r : r.type = "lambda" /\ StrIncludes(integration.uri, r.id))
  IN Flatten([k \in 1..Len(apiIntegrations) |->
       IF Found(apiIntegrations[k]) = 0 THEN <<>>
       ELSE << Relationship(resource.id, allResources[Found(apiIntegrations[k])].id,
                            RelationshipType.TRIGGERS,
                            [method |-> apiIntegrations[k].method,
                             path |-> apiIntegrations[k].path]) >>])

\* case 'eventbridge': target.arn.includes(r.id) throws for a target whose arn
\* is undefined as soon as find calls it; the catch of the loop body ends the
\* iteration and the targets before that one have been handled
BeforeThrow(eventTargets, allResources) ==
  LET thrower == FindIndex(eventTargets, LAMBDA target : target.arn = Undefined)
  IN IF thrower = 0 \/ allResources = <<>> THEN eventTargets
     ELSE SubSeq(eventTargets, 1, thrower - 1)

\* case 'eventbridge'
EventBridgeEdges(resource, allResources) ==
  LET eventTargets == BeforeThrow(getEventBridgeTargets(resource), allResources)
      Found(target) == FindIndex(allResources, LAMBDA r : StrIncludes(target.arn, r.id))
  IN Flatten([k \in 1..Len(eventTargets) |->
       IF Found(eventTargets[k]) = 0 THEN <<>>
       ELSE << Relationship(resource.id, allResources[Found(eventTargets[k])].id,
                            RelationshipType.TRIGGERS,
                            [targetId |-> eventTargets[k].id]) >>])

\* case 'ec2': the edge rebuilt from one connection of the resolver
Ec2Edge(resource, connection) ==
  Relationship(resource.id, connection.targetId, RelationshipType.CONNECTS_TO,
               [protocol |-> UndefinedScalar, port |-> UndefinedScalar])

Ec2Edges(resource, allResources) ==
  LET securityGroupConnections == getSecurityGroupConnections(resource, allResources)
  IN [k \in 1..Len(securityGroupConnections) |->
        Ec2Edge(resource, securityGroupConnections[k])]

\* case 'aurora': instances matched by cluster id or by the id's last segment
ClusterInstances(resource, allResources) ==
  LET clusterName == SplitPop(resource.id, ":")
  IN SelectSeq(allResources,
       LAMBDA r : r.type = "aurora-instance"
                  /\ (r.clusterId = resource.id \/ r.clusterId = clusterName))

\* case 'aurora': instances whose clusterId is the cluster's display name
NameBasedInstances(resource, allResources) ==
  SelectSeq(allResources,
    LAMBDA r : r.type = "aurora-instance" /\ r.clusterId = resource.name)

\* case 'aurora': the instance_of edges pushed for the cluster
ClusterInstanceOfEdges(resource, allResources) ==
  LET clusterInstances == ClusterInstances(resource, allResources)
      nameBasedInstances == NameBasedInstances(resource, allResources)
      extra == SelectSeq(nameBasedInstances,
                 LAMBDA i : ~ \E k \in 1..Len(clusterInstances) : clusterInstances[k].id = i.id)
  IN [k \in 1..Len(clusterInstances) |->
        Relationship(clusterInstances[k].id, resource.id,
                     RelationshipType.INSTANCE_OF, NoMetadata)]
     \o
     [k \in 1..Len(extra) |->
        Relationship(extra[k].id, resource.id, RelationshipType.INSTANCE_OF, NoMetadata)]

\* case 'aurora': the groups the cluster itself carries
AuroraClusterSecurityGroups(resource) ==
  IF Present(resource.securityGroups) THEN resource.securityGroups
  ELSE IF resource.tagSecurityGroups # <<>> THEN TagGroups(resource.tagSecurityGroups)
  ELSE <<>>

\* a fallback that pushes the connection of the instance as it is
ModifiedConnectionUnchanged(connection, instance, resource) == connection

\* case 'aurora': a connection of an instance with the instance id replaced
ModifiedConnection(connection, instance, resource) ==
  [connection EXCEPT
     !.sourceId = IF connection.sourceId = instance.id THEN resource.id ELSE @,
     !.targetId = IF connection.targetId = instance.id THEN resource.id ELSE @]

\* case 'aurora': connections taken from the instances of a cluster without groups
ClusterFallbackEdges(resource, allResources) ==
  LET clusterInstances == ClusterInstances(resource, allResources)
      instancesWithSecurityGroups ==
        SelectSeq(clusterInstances,
          LAMBDA i : Present(i.securityGroups) /\ Len(i.securityGroups) > 0)
      ForInstance(instance) ==
        LET instanceConnections == getSecurityGroupConnections(instance, allResources)
        IN [k \in 1..Len(instanceConnections) |->
              ModifiedConnection(instanceConnections[k], instance, resource)]
  IN Flatten([k \in 1..Len(instancesWithSecurityGroups) |->
                ForInstance(instancesWithSecurityGroups[k])])

AuroraEdges(resource, allResources) ==
  LET auroraClusterSecurityGroups == AuroraClusterSecurityGroups(resource)
  IN ClusterInstanceOfEdges(resource, allResources)
     \o
     IF Len(auroraClusterSecurityGroups) > 0
     THEN getSecurityGroupConnections(
            [resource EXCEPT !.securityGroups = auroraClusterSecurityGroups], allResources)
     ELSE ClusterFallbackEdges(resource, allResources)

\* case 'aurora-instance': the instance_of edge to the parent cluster
ParentClusterEdges(resource, allResources) ==
  LET parent == FindIndex(allResources,
                  LAMBDA r : r.type = "aurora"
                             /\ (r.id = resource.clusterId
                                 \/ EndsWith(r.id, <<":", "cluster", ":">> \o resource.clusterId)))
  IN IF resource.clusterId # <<>> /\ parent # 0
     THEN << Relationship(resource.id, allResources[parent].id,
                          RelationshipType.INSTANCE_OF, NoMetadata) >>
     ELSE <<>>

AuroraInstanceEdges(resource, allResources) ==
  ParentClusterEdges(resource, allResources)
  \o getSecurityGroupConnections(resource, allResources)

\* case 'ecs': the groups taken from the network configuration or the tags
EcsSecurityGroups(resource) ==
  IF Present(resource.netSecurityGroups) THEN resource.netSecurityGroups
  ELSE IF resource.tagSecurityGroups # <<>> THEN TagGroups(resource.tagSecurityGroups)
  ELSE <<>>

EcsEdges(resource, allResources) ==
  LET ecsSecurityGroups == EcsSecurityGroups(resource)
  IN IF Len(ecsSecurityGroups) > 0
     THEN getSecurityGroupConnections(
            [resource EXCEPT !.securityGroups = ecsSecurityGroups], allResources)
     ELSE <<>>

\* case 'stepfunctions'
StepFunctionEdges(resource, allResources) ==
  LET stepFunctionTargets == StepFunctionTargets(resource)
      Found(target) == FindIndex(allResources, LAMBDA r : StrIncludes(target.arn, r.id))
  IN Flatten([k \in 1..Len(stepFunctionTargets) |->
       IF Found(stepFunctionTargets[k]) = 0 THEN <<>>
       ELSE << Relationship(resource.id, allResources[Found(stepFunctionTargets[k])].id,
                            RelationshipType.TRIGGERS,
                            [stateType |-> stepFunctionTargets[k].stateType]) >>])

\* switch (resource.type): the edges the loop body pushes for one resource
ExtractorEdges(resource, allResources) ==
  CASE resource.type \in {"alb", "nlb"} -> LoadBalancerEdges(resource, allResources)
    [] resource.type = "lambda" -> LambdaEdges(resource, allResources)
    [] resource.type = "apigateway" -> ApiGatewayEdges(resource, allResources)
    [] resource.type = "eventbridge" -> EventBridgeEdges(resource, allResources)
    [] resource.type = "ec2" -> Ec2Edges(resource, allResources)
    [] resource.type = "aurora" -> AuroraEdges(resource, allResources)
    [] resource.type = "aurora-instance" -> AuroraInstanceEdges(resource, allResources)
    [] resource.type = "ecs" -> EcsEdges(resource, allResources)
    [] resource.type = "stepfunctions" -> StepFunctionEdges(resource, allResources)
    [] OTHER -> <<>>

\* one call of getSecurityGroupConnections: the resource handed over, the group
\* ids it works with, and whether DescribeSecurityGroupsCommand is sent for them
ResolverCall(resource) ==
  LET securityGroupIds == ResolverGroupIds(resource)
  IN [resource |-> resource.id, groupIds |-> securityGroupIds,
      fetched |-> Len(securityGroupIds) > 0
                  /\ ~ArrIncludes(securityGroupIds, MockSecurityGroupId)]

\* the calls of getSecurityGroupConnections one iteration of the loop makes
SecurityGroupCalls(resource, allResources) ==
  CASE resource.type \in {"ec2", "aurora-instance"} -> << ResolverCall(resource) >>
    [] resource.type = "ecs" ->
         IF Len(EcsSecurityGroups(resource)) > 0
         THEN << ResolverCall([resource EXCEPT !.securityGroups = EcsSecurityGroups(resource)]) >>
         ELSE <<>>
    [] resource.type = "aurora" ->
         IF Len(AuroraClusterSecurityGroups(resource)) > 0
         THEN << ResolverCall(
                   [resource EXCEPT !.securityGroups = AuroraClusterSecurityGroups(resource)]) >>
         ELSE LET instancesWithSecurityGroups ==
                    SelectSeq(ClusterInstances(resource, allResources),
                      LAMBDA i : Present(i.securityGroups) /\ Len(i.securityGroups) > 0)
              IN [k \in 1..Len(instancesWithSecurityGroups) |->
                    ResolverCall(instancesWithSecurityGroups[k])]
    [] OTHER -> <<>>

\* the provider commands one iteration of the loop awaits
ProviderCalls(resource, allResources) ==
  LET calls == SecurityGroupCalls(resource, allResources)
      fetched == {k \in 1..Len(calls) : calls[k].fetched}
  IN (CASE resource.type \in {"alb", "nlb"} -> {Call("DescribeTargetGroups", resource.id)}
        [] resource.type = "lambda" ->
             {Call("GetPolicy", resource.id), Call("GetFunction", resource.id)}
        [] resource.type = "apigateway" -> {Call("GetResources", resource.id)}
        [] resource.type = "eventbridge" -> {Call("ListTargetsByRule", resource.id)}
        [] OTHER -> {})
     \cup
     UNION {{Call("DescribeSecurityGroups", <<calls[k].groupIds[i]>>) :
               i \in 1..Len(calls[k].groupIds)} : k \in fetched}

\* the iteration for this resource runs into the provider's fault while the
\* fault lasts ("over": it did, in the request served during the fault)
HitsFailure(resource, allResources) ==
  /\ fault.mode \in {"error", "malformed", "over"}
  /\ Call(fault.call, fault.on) \in ProviderCalls(resource, allResources)

\* the iteration for this resource awaits a call that never settles
AwaitsForever(resource, allResources) ==
  \E c \in ProviderCalls(resource, allResources) : Hangs(c.call, c.on)

\* ------------------------------------------------------------------------
\* Assembler
\* ------------------------------------------------------------------------
\* a key that leaves the source out
RelationshipKeyNoSource(rel) == rel.targetId \o <<"|">> \o <<rel.type>>

\* the key of the relationshipMap: `${sourceId}|${targetId}|${type}`
\* (the ids are ARNs, instance ids and REST api ids: none contains "|")
RelationshipKey(rel) == rel.sourceId \o <<"|">> \o rel.targetId \o <<"|">> \o <<rel.type>>

\* a loop whose membership test never succeeds: nothing is dropped
DeduplicateNothing(relationships, seenKeys) == relationships

\* a loop that overwrites the map entry: first position, last metadata
DeduplicateLastWins(relationships, seenKeys) ==
  LET firsts == {i \in 1..Len(relationships) :
                   \A j \in 1..(i - 1) :
                      RelationshipKey(relationships[j]) # RelationshipKey(relationships[i])}
      Last(i) == CHOOSE j \in i..Len(relationships) :
                   /\ RelationshipKey(relationships[j]) = RelationshipKey(relationships[i])
                   /\ \A l \in (j + 1)..Len(relationships) :
                        RelationshipKey(relationships[l]) # RelationshipKey(relationships[i])
      kept == [i \in 1..Len(relationships) |->
                 IF i \in firsts THEN <<relationships[Last(i)]>> ELSE <<>>]
  IN Flatten(kept)

\* the deduplication loop: keep a relationship when no earlier one has its key
RECURSIVE Deduplicate(_, _)
Deduplicate(relationships, seenKeys) ==
  IF relationships = <<>> THEN <<>>
  ELSE LET rel == Head(relationships)
           key == RelationshipKey(rel)
       IN IF key \in seenKeys
          THEN Deduplicate(Tail(relationships), seenKeys)
          ELSE <<rel>> \o Deduplicate(Tail(relationships), seenKeys \cup {key})


\* ------------------------------------------------------------------------
\* Dependency view: ResourceGroup and ResourceDependencyGraph
\* ------------------------------------------------------------------------
HasId(resources, id) == \E k \in 1..Len(resources) : resources[k].id = id

\* ResourceGroup, externalResources: the resources of the page's inventory that
\* a relationship names and that are not resources of the application
ExternalResourcesOf(relationships, appResources, allResources) ==
  LET externalResourceIds ==
        {relationships[k].sourceId : k \in 1..Len(relationships)}
        \cup {relationships[k].targetId : k \in 1..Len(relationships)}
  IN IF Len(relationships) = 0 THEN <<>>
     ELSE SelectSeq(allResources,
            LAMBDA r : r.id \in externalResourceIds /\ ~HasId(appResources, r.id))

\* the callback of relationshipsArray.filter: is the relationship kept
RelevantRelationship(rel, resources, showExternalResources) ==
  LET sourceInApp == HasId(resources, rel.sourceId)
      targetInApp == HasId(resources, rel.targetId)
  IN IF showExternalResources /\ ~sourceInApp /\ targetInApp THEN TRUE
     ELSE IF showExternalResources /\ sourceInApp /\ ~targetInApp THEN TRUE
     ELSE sourceInApp /\ targetInApp

RelevantRelationships(resources, relationships, showExternalResources) ==
  SelectSeq(relationships,
    LAMBDA rel : RelevantRelationship(rel, resources, showExternalResources))

\* graphResources after the filter has run over the relationships: the
\* resources, then every external endpoint found in externalResources
RECURSIVE GraphResources(_, _, _, _, _)
GraphResources(graphResources, relationships, resources, externalResources, showExternal) ==
  IF relationships = <<>> THEN graphResources
  ELSE LET rel == Head(relationships)
           sourceInApp == HasId(resources, rel.sourceId)
           targetInApp == HasId(resources, rel.targetId)
           looksUp == showExternal /\ (sourceInApp # targetInApp)
           wanted == IF sourceInApp THEN rel.targetId ELSE rel.sourceId
           found == FindIndex(externalResources, LAMBDA r : r.id = wanted)
           added == IF looksUp /\ found # 0 /\ ~HasId(graphResources, wanted)
                    THEN Append(graphResources, externalResources[found])
                    ELSE graphResources
       IN GraphResources(added, Tail(relationships), resources, externalResources,
                         showExternal)

\* empty-state checks with the relationships looked at first
EmptyStateMessageEdgesFirst(graphResources, relevantRelationships) ==
  IF Len(relevantRelationships) = 0 THEN "No relationships found between resources"
  ELSE IF Len(graphResources) = 0 THEN "No resources to display"
  ELSE ""

\* the empty-state checks of the effect; "" stands for setMessage(null)
EmptyStateMessage(graphResources, relevantRelationships) ==
  IF Len(graphResources) = 0 THEN "No resources to display"
  ELSE IF Len(relevantRelationships) = 0 THEN "No relationships found between resources"
  ELSE ""

\* fx: null, fy: null; a number v is kept as <<v>>
Null == <<>>

\* nodes: one per graph resource, not pinned
Nodes(graphResources, resources) ==
  [k \in 1..Len(graphResources) |->
     [id |-> graphResources[k].id, isExternal |-> ~HasId(resources, graphResources[k].id),
      fx |-> Null, fy |-> Null]]

\* links: the relevant relationships whose two endpoints are nodes
Links(relevantRelationships, nodes) ==
  LET resolved == SelectSeq(relevantRelationships,
                    LAMBDA rel : HasId(nodes, rel.sourceId) /\ HasId(nodes, rel.targetId))
  IN [k \in 1..Len(resolved) |->
        [source |-> resolved[k].sourceId, target |-> resolved[k].targetId,
         type |-> resolved[k].type]]

\* the coordinates of the drawing area
Coordinates == {0, 1}

\* what the effect appends to the svg: d3.forceSimulation gives node k its
\* first position, the circles are drawn with stroke-width 1.5 and the lines
\* with stroke-width 2
Canvas(nodes, links) ==
  [drawn |-> TRUE,
   nodes |-> [k \in 1..Len(nodes) |->
                [id |-> nodes[k].id, isExternal |-> nodes[k].isExternal,
                 fx |-> nodes[k].fx, fy |-> nodes[k].fy,
                 x |-> k % 2, y |-> (k \div 2) % 2, strokeWidth |-> "1.5"]],
   links |-> [k \in 1..Len(links) |->
                [source |-> links[k].source, target |-> links[k].target,
                 type |-> links[k].type, strokeWidth |-> "2"]]]

\* the resources the page can have loaded from /api/resources
PageCatalog == <<ResLambda, ResApi, ResRule, ResEc2A, ResEc2B, ResNlb>>

\* the relationships the route can have answered for application shop
PageRelationships ==
  << Relationship(ResApi.id, ResLambda.id, RelationshipType.TRIGGERS,
                  [method |-> "GET", path |-> "/orders"]),
     Relationship(ResRule.id, ResLambda.id, RelationshipType.TRIGGERS, [targetId |-> "t1"]),
     Relationship(ResEc2A.id, ResEc2B.id, RelationshipType.CONNECTS_TO,
                  [protocol |-> UndefinedScalar, port |-> UndefinedScalar]),
     Relationship(ResNlb.id, ResEc2B.id, RelationshipType.ROUTES_TO,
                  [protocol |-> "TCP", port |-> "22"]),
     Relationship(ResNlb.id, ResEc2A.id, RelationshipType.ROUTES_TO,
                  [protocol |-> "TCP", port |-> "22"]) >>

\* ------------------------------------------------------------------------
\* State
\* ------------------------------------------------------------------------
\* the two requests that can be in flight
Runs == {1, 2}

VARIABLES
  allResources,    \* the inventory both requests work on
  focusResources,  \* per request: [given, list], given = FALSE for null
  pc,              \* per request: "idle", "received", "running" or "done"
  position,        \* per request: index of the next resource of the for loop
  relationships,   \* per request: the candidate edges pushed so far
  response,        \* per request: the document sent by the route
  application,     \* per request: req.query.application, "" when absent
  contributed,     \* per request: the edges pushed by each finished iteration
  resolverCalls,   \* per request: the calls of getSecurityGroupConnections so far
  props,           \* renderer: the properties passed by the parent
  message,         \* renderer: the message state, "" for null
  containerRef,    \* renderer: TRUE while the container element is attached
  canvas,          \* renderer: what the effect has drawn into the container
  effectPending,   \* renderer: a dependency changed and the effect has not run yet
  fresh,           \* renderer: no property has changed since the mount
  pointer          \* renderer: the node being dragged, the node hovered, the last drag event

discoveryVars ==
  <<allResources, focusResources, pc, position, relationships, response,
    application, fault, contributed, resolverCalls>>

rendererVars == <<props, message, containerRef, canvas, effectPending, fresh, pointer>>

vars == <<discoveryVars, rendererVars>>

NullFocus == [given |-> FALSE, list |-> <<>>]

\* nothing sent yet: status 0
NoResponse ==
  [status |-> 0, resources |-> <<>>, relationships |-> <<>>, externalResources |-> <<>>]

\* the properties of a renderer that is not mounted
NoProps ==
  [resources |-> <<>>, relationships |-> <<>>, externalResources |-> <<>>,
   showExternalResources |-> TRUE]

\* an empty container element
NoCanvas == [drawn |-> FALSE, nodes |-> <<>>, links |-> <<>>]

\* no drag gesture is active and no node is hovered
NoPointer == [dragging |-> 0, over |-> 0, x |-> 0, y |-> 0]

\* no dependency view is open
RendererIdle ==
  /\ pointer = NoPointer
  /\ props = NoProps
  /\ message = ""
  /\ containerRef = FALSE
  /\ canvas = NoCanvas
  /\ effectPending = FALSE
  /\ fresh = TRUE

\* a call of discoverResourceRelationships that has pushed nothing yet
NothingPushed ==
  /\ position = [run \in Runs |-> 1]
  /\ relationships = [run \in Runs |-> <<>>]
  /\ contributed = [run \in Runs |-> <<>>]
  /\ resolverCalls = [run \in Runs |-> <<>>]
  /\ response = [run \in Runs |-> NoResponse]

\* the elements of s at the indices in keep, in the order of s
RECURSIVE Pick(_, _)
Pick(s, keep) ==
  IF s = <<>> THEN <<>>
  ELSE Pick(SubSeq(s, 1, Len(s) - 1), keep)
       \o (IF Len(s) \in keep THEN <<s[Len(s)]>> ELSE <<>>)

Reverse(s) == [k \in 1..Len(s) |-> s[Len(s) + 1 - k]]

\* inventories of at most n resources: the regions are concatenated one after
\* the other, so two resources can come in either order
Inventories(n) ==
  LET chosen == {keep \in SUBSET (1..Len(Inventory)) : Cardinality(keep) <= n}
  IN {Pick(Inventory, keep) : keep \in chosen}
     \cup {Reverse(Pick(Inventory, keep)) : keep \in chosen}

\* the focus lists a caller can pass with inventory all: null or a sub-list
FocusChoices(all) ==
  {NullFocus} \cup {[given |-> TRUE, list |-> Pick(all, keep)] : keep \in SUBSET (1..Len(all))}

\* const resourcesOfInterest = focusResources || allResources
ResourcesOfInterest(run) ==
  IF focusResources[run].given THEN focusResources[run].list ELSE allResources

\* a lookup that searches the list being iterated instead of the full list
SearchSpaceFocus(run) == ResourcesOfInterest(run)

\* the list every lookup of the extractors searches: the allResources argument
SearchSpace(run) == allResources

\* a list hoisted out of the function: every call pushes to the same one
RelationshipsShared(run) == 1

\* const relationships = []: the list a call pushes to is its own
RelationshipsOf(run) == run

\* one request for the whole graph or for a focus list
Init ==
  /\ allResources \in Inventories(MaxResources)
  /\ \E f \in FocusChoices(allResources) : focusResources = [run \in Runs |-> f]
  /\ pc = [run \in Runs |-> IF run = 1 THEN "running" ELSE "idle"]
  /\ application = [run \in Runs |-> ""]
  /\ fault = NoFault
  /\ NothingPushed
  /\ RendererIdle

\* two requests in flight on the same inventory: the second one asks for the
\* same focus list or for the whole graph
InitPair ==
  /\ allResources \in Inventories(MaxPairResources)
  /\ \E f \in FocusChoices(allResources), g \in FocusChoices(allResources) :
        /\ g \in {f, NullFocus}
        /\ focusResources = [run \in Runs |-> IF run = 1 THEN f ELSE g]
  /\ pc = [run \in Runs |-> "running"]
  /\ application = [run \in Runs |-> ""]
  /\ fault = NoFault
  /\ NothingPushed
  /\ RendererIdle

\* inventories of at most n database resources, in either order of the regions
DatabaseInventories(n) ==
  LET chosen == {keep \in SUBSET (1..Len(DatabaseInventory)) : Cardinality(keep) <= n}
  IN {Pick(DatabaseInventory, keep) : keep \in chosen}
     \cup {Reverse(Pick(DatabaseInventory, keep)) : keep \in chosen}

\* one request on an inventory of database clusters and instances
InitDatabase ==
  /\ allResources \in DatabaseInventories(MaxDatabaseResources)
  /\ \E f \in FocusChoices(allResources) : focusResources = [run \in Runs |-> f]
  /\ pc = [run \in Runs |-> IF run = 1 THEN "running" ELSE "idle"]
  /\ application = [run \in Runs |-> ""]
  /\ fault = NoFault
  /\ NothingPushed
  /\ RendererIdle

\* the provider commands the extractors can send for an inventory
AllCalls(all) == UNION {ProviderCalls(all[k], all) : k \in 1..Len(all)}

\* the faults the provider can have during a request: none, one command that
\* is rejected or never settles, or a rule whose target list lacks an Arn
Faults(all) ==
  {NoFault}
  \cup {[mode |-> m, call |-> c.call, on |-> c.on] : m \in {"error", "hang"}, c \in AllCalls(all)}
  \cup {[mode |-> "malformed", call |-> "ListTargetsByRule", on |-> all[k].id] :
          k \in {i \in 1..Len(all) : all[i].type = "eventbridge"}}

\* one request while the provider has a fault
InitFault ==
  /\ allResources \in Inventories(MaxFaultResources)
  /\ \E f \in FocusChoices(allResources) : focusResources = [run \in Runs |-> f]
  /\ pc = [run \in Runs |-> IF run = 1 THEN "running" ELSE "idle"]
  /\ application = [run \in Runs |-> ""]
  /\ fault \in Faults(allResources)
  /\ NothingPushed
  /\ RendererIdle

\* every region and every resource-type fetch of the inventory pull errors
InventoryFault == [mode |-> "error", call |-> "inventory", on |-> <<>>]

\* the values of req.query.application, "" when the parameter is absent
Applications == {"", "shop", "Unknown", "test-app2", "billing"}

\* what the fetchers of getAllResources can collect from the regions
Pulls(n) ==
  {inv \in Inventories(n) : \A k \in 1..Len(inv) : inv[k].id # ResMockEcs.id}

\* getAllResources: every fetcher answers [] on an error, and the mock
\* service is pushed in every case
getAllResources(pulled) ==
  (IF Fails("inventory", <<>>) THEN <<>> ELSE pulled) \o <<ResMockEcs>>

\* a filter that also lets the untagged resources through
FilterByApplicationOrUnknown(all, app) ==
  SelectSeq(all, LAMBDA r : r.application \in {app, "Unknown"})

\* allResources.filter(r => r.application === application)
FilterByApplication(all, app) == SelectSeq(all, LAMBDA r : r.application = app)

\* a request that has reached the route and has not been handled yet
InitRoute ==
  /\ allResources = <<>>
  /\ focusResources = [run \in Runs |-> NullFocus]
  /\ pc = [run \in Runs |-> IF run = 1 THEN "received" ELSE "idle"]
  /\ application = [run \in Runs |-> ""]
  /\ fault \in {NoFault, InventoryFault}
  /\ NothingPushed
  /\ RendererIdle

\* the resource the for loop of a request is at
Current(run) == ResourcesOfInterest(run)[position[run]]

\* the loop is at a resource and every call the iteration awaits settles
InLoop(run) ==
  /\ pc[run] = "running"
  /\ position[run] <= Len(ResourcesOfInterest(run))
  /\ ~AwaitsForever(Current(run), allResources)

\* one iteration of the loop that pushes edges
Push(run, edges) ==
  /\ relationships' = [relationships EXCEPT ![RelationshipsOf(run)] = @ \o edges]
  /\ position' = [position EXCEPT ![run] = @ + 1]
  /\ contributed' = [contributed EXCEPT ![run] = Append(@, edges)]
  /\ resolverCalls' =
       [resolverCalls EXCEPT ![run] = @ \o SecurityGroupCalls(Current(run), allResources)]
  /\ UNCHANGED <<allResources, focusResources, pc, response, application, fault>>
  /\ UNCHANGED rendererVars

ProcessLoadBalancer(run) ==
  /\ InLoop(run)
  /\ Current(run).type \in {"alb", "nlb"}
  /\ Push(run, LoadBalancerEdges(Current(run), SearchSpace(run)))

ProcessLambda(run) ==
  /\ InLoop(run)
  /\ Current(run).type = "lambda"
  /\ Push(run, LambdaEdges(Current(run), SearchSpace(run)))

ProcessApiGateway(run) ==
  /\ InLoop(run)
  /\ Current(run).type = "apigateway"
  /\ Push(run, ApiGatewayEdges(Current(run), SearchSpace(run)))

ProcessEventBridge(run) ==
  /\ InLoop(run)
  /\ Current(run).type = "eventbridge"
  /\ Push(run, EventBridgeEdges(Current(run), SearchSpace(run)))

ProcessEc2(run) ==
  /\ InLoop(run)
  /\ Current(run).type = "ec2"
  /\ Push(run, Ec2Edges(Current(run), SearchSpace(run)))

ProcessAurora(run) ==
  /\ InLoop(run)
  /\ Current(run).type = "aurora"
  /\ Push(run, AuroraEdges(Current(run), SearchSpace(run)))

ProcessAuroraInstance(run) ==
  /\ InLoop(run)
  /\ Current(run).type = "aurora-instance"
  /\ Push(run, AuroraInstanceEdges(Current(run), SearchSpace(run)))

ProcessEcs(run) ==
  /\ InLoop(run)
  /\ Current(run).type = "ecs"
  /\ Push(run, EcsEdges(Current(run), SearchSpace(run)))

ProcessStepFunctions(run) ==
  /\ InLoop(run)
  /\ Current(run).type = "stepfunctions"
  /\ Push(run, StepFunctionEdges(Current(run), SearchSpace(run)))

\* GET /api/resource-relationships up to the call of
\* discoverResourceRelationships: pull the inventory, derive the focus list
HandleRequest(run) ==
  /\ pc[run] = "received"
  /\ \E pulled \in Pulls(MaxRouteResources), app \in Applications :
       /\ allResources' = getAllResources(pulled)
       /\ application' = [application EXCEPT ![run] = app]
       /\ focusResources' =
            [focusResources EXCEPT ![run] =
               IF app # ""
               THEN [given |-> TRUE, list |-> FilterByApplication(allResources', app)]
               ELSE NullFocus]
  /\ pc' = [pc EXCEPT ![run] = "running"]
  /\ UNCHANGED <<position, relationships, response, fault, contributed, resolverCalls>>
  /\ UNCHANGED rendererVars

\* a filter with the negation lost: the focus resources themselves
ExternalResourcesInverted(all, focus) ==
  IF focus.given
  THEN SelectSeq(all, LAMBDA r : \E k \in 1..Len(focus.list) : focus.list[k].id = r.id)
  ELSE <<>>

\* externalResources of the route's response
ExternalResources(all, focus) ==
  IF focus.given
  THEN SelectSeq(all, LAMBDA r : ~ \E k \in 1..Len(focus.list) : focus.list[k].id = r.id)
  ELSE <<>>

\* after the loop: deduplicate, return, and the route sends its response
Respond(run) ==
  /\ pc[run] = "running"
  /\ position[run] > Len(ResourcesOfInterest(run))
  /\ response' = [response EXCEPT ![run] =
       [status |-> 200,
        resources |-> ResourcesOfInterest(run),
        relationships |-> Deduplicate(relationships[RelationshipsOf(run)], {}),
        externalResources |-> ExternalResources(allResources, focusResources[run])]]
  /\ pc' = [pc EXCEPT ![run] = "done"]
  /\ UNCHANGED <<allResources, focusResources, position, relationships,
                 application, fault, contributed, resolverCalls>>
  /\ UNCHANGED rendererVars

Next ==
  \E run \in Runs :
    \/ ProcessLoadBalancer(run)
    \/ ProcessLambda(run)
    \/ ProcessApiGateway(run)
    \/ ProcessEventBridge(run)
    \/ ProcessEc2(run)
    \/ ProcessAurora(run)
    \/ ProcessAuroraInstance(run)
    \/ ProcessEcs(run)
    \/ ProcessStepFunctions(run)
    \/ Respond(run)

\* the provider answers again once the request has been served; a call that
\* never settles stays lost
Recover ==
  /\ fault.mode \in {"error", "malformed"}
  /\ \A run \in Runs : pc[run] # "running"
  /\ fault' = [fault EXCEPT !.mode = "over"]
  /\ UNCHANGED <<allResources, focusResources, pc, position, relationships, response,
                 application, contributed, resolverCalls>>
  /\ UNCHANGED rendererVars

\* the client asks again for the same relationships after the fault is over
Retry ==
  /\ fault.mode = "over"
  /\ pc[1] = "done"
  /\ pc[2] = "idle"
  /\ pc' = [pc EXCEPT ![2] = "running"]
  /\ UNCHANGED <<allResources, focusResources, position, relationships, response,
                 application, fault, contributed, resolverCalls>>
  /\ UNCHANGED rendererVars

NextFault == Next \/ Recover \/ Retry

\* the loop over an inventory that holds database resources only
NextDatabase ==
  \E run \in Runs : ProcessAurora(run) \/ ProcessAuroraInstance(run) \/ Respond(run)

\* no request is being served
DiscoveryIdle ==
  /\ allResources = <<>>
  /\ focusResources = [run \in Runs |-> NullFocus]
  /\ pc = [run \in Runs |-> "idle"]
  /\ application = [run \in Runs |-> ""]
  /\ fault = NoFault
  /\ NothingPushed

\* ResourceGroup of application shop mounts the graph: the resources of the
\* group, the relationships it has fetched, the external resources it derives
\* from both, and the state of the checkbox
InitRender ==
  /\ DiscoveryIdle
  /\ \E known \in {Pick(PageCatalog, keep) : keep \in SUBSET (1..Len(PageCatalog))},
        fetched \in {Pick(PageRelationships, keep) :
                       keep \in SUBSET (1..Len(PageRelationships))},
        checked \in BOOLEAN :
       LET appResources == FilterByApplication(known, "shop")
       IN props = [resources |-> appResources,
                   relationships |-> fetched,
                   externalResources |-> ExternalResourcesOf(fetched, appResources, known),
                   showExternalResources |-> checked]
  /\ message = ""
  /\ containerRef = TRUE
  /\ canvas = NoCanvas
  /\ effectPending = TRUE
  /\ fresh = TRUE
  /\ pointer = NoPointer

\* useEffect: return at once without a container; otherwise filter the
\* relationships, then either set the message, after which the message box is
\* rendered in place of the container, or draw nodes and links
RunEffect ==
  /\ effectPending
  /\ effectPending' = FALSE
  /\ IF ~containerRef
     THEN UNCHANGED <<message, containerRef, canvas>>
     ELSE LET relevantRelationships ==
                RelevantRelationships(props.resources, props.relationships,
                                      props.showExternalResources)
              graphResources ==
                GraphResources(props.resources, props.relationships, props.resources,
                               props.externalResources, props.showExternalResources)
              text == EmptyStateMessage(graphResources, relevantRelationships)
              nodes == Nodes(graphResources, props.resources)
          IN /\ message' = text
             /\ containerRef' = (text = "")
             /\ canvas' = IF text = ""
                          THEN Canvas(nodes, Links(relevantRelationships, nodes))
                          ELSE NoCanvas
  /\ pointer' = NoPointer
  /\ UNCHANGED <<props, fresh>>
  /\ UNCHANGED discoveryVars

\* ResourceGroup: the checkbox "Show external dependencies" is clicked
ToggleExternal ==
  /\ ~effectPending
  /\ props' = [props EXCEPT !.showExternalResources = ~@]
  /\ effectPending' = TRUE
  /\ fresh' = FALSE
  /\ UNCHANGED <<message, containerRef, canvas, pointer>>
  /\ UNCHANGED discoveryVars

NextRender == RunEffect \/ ToggleExternal

\* a dependency view is mounted on a page that has loaded a few resources and
\* all relationships of the application
InitGesture ==
  /\ DiscoveryIdle
  /\ \E known \in {Pick(PageCatalog, keep) :
                     keep \in {c \in SUBSET (1..Len(PageCatalog)) :
                                Cardinality(c) <= MaxGestureResources}},
        checked \in BOOLEAN :
       LET appResources == FilterByApplication(known, "shop")
       IN props = [resources |-> appResources,
                   relationships |-> PageRelationships,
                   externalResources |->
                     ExternalResourcesOf(PageRelationships, appResources, known),
                   showExternalResources |-> checked]
  /\ message = ""
  /\ containerRef = TRUE
  /\ canvas = NoCanvas
  /\ effectPending = TRUE
  /\ fresh = TRUE
  /\ pointer = NoPointer

\* what an event handler leaves alone besides the canvas and the pointer
HandlerFrame ==
  /\ UNCHANGED <<props, message, containerRef, effectPending, fresh>>
  /\ UNCHANGED discoveryVars

\* one tick of the simulation: a pinned node is put on its pin, every other
\* node is moved by the forces
Tick ==
  /\ canvas.drawn
  /\ canvas' = [canvas EXCEPT !.nodes =
       [k \in 1..Len(canvas.nodes) |->
          [canvas.nodes[k] EXCEPT
             !.x = IF canvas.nodes[k].fx # Null THEN canvas.nodes[k].fx[1] ELSE 1 - @,
             !.y = IF canvas.nodes[k].fy # Null THEN canvas.nodes[k].fy[1] ELSE @]]]
  /\ UNCHANGED pointer
  /\ HandlerFrame

\* dragstarted(event, d): d.fx = d.x; d.fy = d.y
dragstarted(d) ==
  /\ canvas.drawn
  /\ pointer.dragging = 0
  /\ d \in 1..Len(canvas.nodes)
  /\ canvas' = [canvas EXCEPT !.nodes[d].fx = <<canvas.nodes[d].x>>,
                               !.nodes[d].fy = <<canvas.nodes[d].y>>]
  /\ pointer' = [pointer EXCEPT !.dragging = d, !.x = canvas.nodes[d].x,
                                 !.y = canvas.nodes[d].y]
  /\ HandlerFrame

\* dragged(event, d): d.fx = event.x; d.fy = event.y
dragged(x, y) ==
  /\ canvas.drawn
  /\ pointer.dragging # 0
  /\ canvas' = [canvas EXCEPT !.nodes[pointer.dragging].fx = <<x>>,
                               !.nodes[pointer.dragging].fy = <<y>>]
  /\ pointer' = [pointer EXCEPT !.x = x, !.y = y]
  /\ HandlerFrame

\* a handler that ends the gesture and leaves the node where it was dropped
dragendedPinned ==
  /\ canvas.drawn
  /\ pointer.dragging # 0
  /\ pointer' = [pointer EXCEPT !.dragging = 0]
  /\ UNCHANGED canvas
  /\ HandlerFrame

\* dragended(event, d): d.fx = null; d.fy = null
dragended ==
  /\ canvas.drawn
  /\ pointer.dragging # 0
  /\ canvas' = [canvas EXCEPT !.nodes[pointer.dragging].fx = Null,
                               !.nodes[pointer.dragging].fy = Null]
  /\ pointer' = [pointer EXCEPT !.dragging = 0]
  /\ HandlerFrame

\* the nodes joined to node d by a link of the canvas
ConnectedNodeIds(d) ==
  {canvas.links[k].target : k \in {n \in 1..Len(canvas.links) :
                                      canvas.links[n].source = canvas.nodes[d].id}}
  \cup {canvas.links[k].source : k \in {n \in 1..Len(canvas.links) :
                                          canvas.links[n].target = canvas.nodes[d].id}}

\* on('mouseover'): every circle gets stroke-width 3 or 1.5, every line 4 or 2
mouseover(d) ==
  /\ canvas.drawn
  /\ d \in 1..Len(canvas.nodes)
  /\ canvas' = [canvas EXCEPT
       !.nodes = [k \in 1..Len(canvas.nodes) |->
                    [canvas.nodes[k] EXCEPT !.strokeWidth =
                       IF canvas.nodes[k].id = canvas.nodes[d].id
                          \/ canvas.nodes[k].id \in ConnectedNodeIds(d)
                       THEN "3" ELSE "1.5"]],
       !.links = [k \in 1..Len(canvas.links) |->
                    [canvas.links[k] EXCEPT !.strokeWidth =
                       IF canvas.links[k].source = canvas.nodes[d].id
                          \/ canvas.links[k].target = canvas.nodes[d].id
                       THEN "4" ELSE "2"]]]
  /\ pointer' = [pointer EXCEPT !.over = d]
  /\ HandlerFrame

\* a handler that resets the circles and forgets the lines
mouseoutCirclesOnly ==
  /\ canvas.drawn
  /\ pointer.over # 0
  /\ canvas' = [canvas EXCEPT
       !.nodes = [k \in 1..Len(canvas.nodes) |->
                    [canvas.nodes[k] EXCEPT !.strokeWidth = "1.5"]]]
  /\ pointer' = [pointer EXCEPT !.over = 0]
  /\ HandlerFrame

\* on('mouseout'): every circle back to 1.5, every line back to 2
mouseout ==
  /\ canvas.drawn
  /\ pointer.over # 0
  /\ canvas' = [canvas EXCEPT
       !.nodes = [k \in 1..Len(canvas.nodes) |->
                    [canvas.nodes[k] EXCEPT !.strokeWidth = "1.5"]],
       !.links = [k \in 1..Len(canvas.links) |->
                    [canvas.links[k] EXCEPT !.strokeWidth = "2"]]]
  /\ pointer' = [pointer EXCEPT !.over = 0]
  /\ HandlerFrame

\* one mounted graph and the events of its nodes
NextGesture ==
  \/ RunEffect
  \/ Tick
  \/ \E d \in 1..Len(canvas.nodes) : dragstarted(d)
  \/ \E x \in Coordinates, y \in Coordinates : dragged(x, y)
  \/ dragended
  \/ \E d \in 1..Len(canvas.nodes) : mouseover(d)
  \/ mouseout

NextRoute == Next \/ \E run \in Runs : HandleRequest(run)

Spec == Init /\ [][Next]_vars

\* one request served by the route
SpecRoute == InitRoute /\ [][NextRoute]_vars

\* one dependency view
SpecRender == InitRender /\ [][NextRender]_vars

\* the event loop resumes every continuation whose awaited call has settled
SpecFault == InitFault /\ [][NextFault]_vars /\ WF_vars(NextFault)

SpecPair == InitPair /\ [][Next]_vars

\* one dependency view whose nodes are dragged and hovered
SpecGesture == InitGesture /\ [][NextGesture]_vars

\* one request on database clusters and instances
SpecDatabase == InitDatabase /\ [][NextDatabase]_vars

TypeOK ==
  /\ \A run \in Runs : pc[run] \in {"idle", "received", "running", "done"}
  /\ \A run \in Runs : position[run] \in 1..(Len(ResourcesOfInterest(run)) + 1)


\* ------------------------------------------------------------------------
\* Properties
\* ------------------------------------------------------------------------
Done(run) == pc[run] = "done"

\* the list returned by discoverResourceRelationships to the route
Returned(run) == response[run].relationships

Ids(resources) == {resources[k].id : k \in 1..Len(resources)}

Triple(rel) == <<rel.sourceId, rel.targetId, rel.type>>

Triples(rels) == {Triple(rels[k]) : k \in 1..Len(rels)}

HasTriple(rels, sourceId, targetId, type) == <<sourceId, targetId, type>> \in Triples(rels)

Focused(run) == focusResources[run].given

FocusIds(run) == Ids(focusResources[run].list)

\* C1: no edge of a returned list has the same resource at both ends
C1_NoSelfEdges ==
  \A run \in Runs :
    Done(run) =>
      \A k \in 1..Len(Returned(run)) :
        Returned(run)[k].sourceId # Returned(run)[k].targetId

\* C2: both ends of every returned edge are ids of resources of the full
\* set, so no edge stands for a lookup that did not resolve
C2_EndpointsInResourceSet ==
  \A run \in Runs :
    Done(run) =>
      \A k \in 1..Len(Returned(run)) :
        /\ Returned(run)[k].sourceId \in Ids(allResources)
        /\ Returned(run)[k].targetId \in Ids(allResources)

\* a function was processed whose policy names a source that is not in the
\* set, next to lookups that did resolve
C2_Witness ==
  /\ Done(1)
  /\ ResLambda \in Range(ResourcesOfInterest(1))
  /\ ResRule \notin Range(allResources)
  /\ HasTriple(Returned(1), ResLambda.id, ResSfn.id, "depends_on")

\* C3: the returned list has no two edges with the same (source, target,
\* type), and every triple among the candidate edges is still in the list
C3_UniqueTriples ==
  \A run \in Runs :
    Done(run) =>
      /\ \A i, j \in 1..Len(Returned(run)) :
           Triple(Returned(run)[i]) = Triple(Returned(run)[j]) => i = j
      /\ Triples(Returned(run)) = Triples(relationships[run])

\* several candidates with the same triple next to candidates with another one
C3_Witness ==
  /\ Done(1)
  /\ Len(relationships[1]) > Len(Returned(1))
  /\ Cardinality(Triples(Returned(1))) >= 2

\* the candidates that are the first with their triple, in candidate order
FirstOccurrences(candidates) ==
  Pick(candidates,
       {i \in 1..Len(candidates) :
          \A j \in 1..(i - 1) : Triple(candidates[j]) # Triple(candidates[i])})

\* C4: of the candidates with one triple the first pushed is the one kept,
\* metadata included, and the kept edges stay in the order they were pushed
C4_FirstOccurrenceKept ==
  \A run \in Runs :
    Done(run) => Returned(run) = FirstOccurrences(relationships[run])

\* two candidates with the same triple and different metadata were pushed
C4_Witness ==
  /\ Done(1)
  /\ \E i, j \in 1..Len(relationships[1]) :
        /\ i < j
        /\ Triple(relationships[1][i]) = Triple(relationships[1][j])
        /\ relationships[1][i].metadata # relationships[1][j].metadata

\* two finished requests with the same focus list return the same edges
C5_SameEdges ==
  (Done(1) /\ Done(2) /\ focusResources[1] = focusResources[2])
    => Range(Returned(1)) = Range(Returned(2))

\* a step that is not a step of request r leaves the edges of r alone
C5_Isolated ==
  \A run \in Runs :
    (position'[run] = position[run] /\ pc'[run] = pc[run])
      => relationships'[run] = relationships[run]

\* C5: two invocations on the same resources, focus and provider answers
\* return the same set of edges under every interleaving of their steps,
\* and no step of one touches the edges collected by the other
C5_IndependentInvocations == []C5_SameEdges /\ [][C5_Isolated]_vars

\* both requests finished with the same focus list and returned edges
C5_Witness ==
  /\ Done(1) /\ Done(2)
  /\ Focused(1) /\ focusResources[1] = focusResources[2]
  /\ Len(Returned(1)) >= 2

\* C6: with a focus list, every returned edge has an end in the focus list
C6_TouchesFocus ==
  \A run \in Runs :
    (Done(run) /\ Focused(run)) =>
      \A k \in 1..Len(Returned(run)) :
        \/ Returned(run)[k].sourceId \in FocusIds(run)
        \/ Returned(run)[k].targetId \in FocusIds(run)

\* the cluster is in the focus list, its instance and the service are not,
\* and the connection of the instance was re-targeted to the cluster
C6_Witness ==
  /\ Done(1) /\ Focused(1)
  /\ ResCluster.id \in FocusIds(1)
  /\ ResInstance.id \notin FocusIds(1)
  /\ ResEcs.id \notin FocusIds(1)
  /\ HasTriple(Returned(1), ResEcs.id, ResCluster.id, "connects_to")

\* request 1 has a focus list and request 2 is the whole-graph request
FocusAndWhole == Done(1) /\ Done(2) /\ Focused(1) /\ ~Focused(2)

\* C7 as stated: every edge of the focus result is an edge of the
\* whole-graph result, with the same metadata
C7_SubsetWithMetadata ==
  FocusAndWhole => Range(Returned(1)) \subseteq Range(Returned(2))

\* C7: every edge of the focus result has the source, target and type of an
\* edge of the whole-graph result
C7_SubsetOfTriples ==
  FocusAndWhole => Triples(Returned(1)) \subseteq Triples(Returned(2))

\* the focus result has an edge whose triple is in the whole-graph result
\* with other metadata
C7_Witness ==
  /\ FocusAndWhole
  /\ \E e \in Range(Returned(1)) :
        /\ e \notin Range(Returned(2))
        /\ Triple(e) \in Triples(Returned(2))

\* the triples pushed by the loop body for the resources of a focus list
FocusExtractorTriples(run) ==
  UNION {Triples(ExtractorEdges(focusResources[run].list[k], allResources)) :
           k \in 1..Len(focusResources[run].list)}

\* C8 as stated: every edge of the whole-graph result with an end in the
\* focus list is in the focus result
C8_AllTouchingEdges ==
  FocusAndWhole =>
    \A e \in Range(Returned(2)) :
      (e.sourceId \in FocusIds(1) \/ e.targetId \in FocusIds(1))
        => Triple(e) \in Triples(Returned(1))

\* C8: every edge of the whole-graph result that the extractor of a focus
\* resource pushes is in the focus result
C8_FocusExtractorEdges ==
  FocusAndWhole =>
    \A e \in Range(Returned(2)) :
      Triple(e) \in FocusExtractorTriples(1) => Triple(e) \in Triples(Returned(1))

\* the focus result has an edge from a focus resource to a resource outside
\* the focus list, and lacks a whole-graph edge that touches the focus list
C8_Witness ==
  /\ FocusAndWhole
  /\ \E e \in Range(Returned(2)) :
        /\ Triple(e) \in FocusExtractorTriples(1)
        /\ Triple(e) \in Triples(Returned(1))
        /\ (e.sourceId \notin FocusIds(1) \/ e.targetId \notin FocusIds(1))
  /\ \E e \in Range(Returned(2)) :
        /\ (e.sourceId \in FocusIds(1) \/ e.targetId \in FocusIds(1))
        /\ Triple(e) \notin Triples(Returned(1))

\* C9: with a focus list, every edge the extractor of a focus resource finds
\* in the full set is returned; an instance of the focus list whose clusterId
\* is the id of a cluster outside the focus list gets its instance_of edge,
\* and the response lists the cluster among the external resources
C9_ExternalCluster ==
  \A run \in Runs :
    (Done(run) /\ Focused(run)) =>
      /\ FocusExtractorTriples(run) \subseteq Triples(Returned(run))
      /\ \A i \in Range(focusResources[run].list) :
           \A c \in Range(allResources) :
             (/\ i.type = "aurora-instance"
              /\ c.type = "aurora"
              /\ c.id \notin FocusIds(run)
              /\ i.clusterId = c.id)
             => /\ HasTriple(Returned(run), i.id, c.id, "instance_of")
                /\ c \in Range(response[run].externalResources)

\* the instance that names the cluster by id is in the focus list and the
\* cluster is not
C9_Witness ==
  /\ Done(1) /\ Focused(1)
  /\ ResInstanceB \in Range(focusResources[1].list)
  /\ ResCluster \in Range(allResources)
  /\ ResCluster.id \notin FocusIds(1)
  /\ ResInstanceB.clusterId = ResCluster.id
  /\ HasTriple(Returned(1), ResInstanceB.id, ResCluster.id, "instance_of")

\* the groups a resource hands to the resolver
DelegatedGroups(r) ==
  CASE r.type \in {"ec2", "aurora-instance"} -> ResolverGroupIds(r)
    [] r.type = "aurora" -> AuroraClusterSecurityGroups(r)
    [] r.type = "ecs" -> EcsSecurityGroups(r)
    [] OTHER -> <<>>

\* the groups referenced by the rules of a list
RuleReferences(rules) == UNION {Range(rules[k].UserIdGroupPairs) : k \in 1..Len(rules)}

\* the other resources of the set that use a group
OtherUsers(owner, all, groupId) ==
  {r \in Range(all) : r.id # owner.id /\ UsesGroup(r, groupId)}

\* ingress rule of owner's group referencing a group of r: r -> owner
InboundTriples(owner, all) ==
  UNION {UNION {{<<r.id, owner.id, "connects_to">> : r \in OtherUsers(owner, all, ref)} :
                  ref \in RuleReferences(SecurityGroups[g].IpPermissions)} :
           g \in Range(DelegatedGroups(owner)) \cap DOMAIN SecurityGroups}

\* egress rule of owner's group referencing a group of r: owner -> r
OutboundTriples(owner, all) ==
  UNION {UNION {{<<owner.id, r.id, "connects_to">> : r \in OtherUsers(owner, all, ref)} :
                  ref \in RuleReferences(SecurityGroups[g].IpPermissionsEgress)} :
           g \in Range(DelegatedGroups(owner)) \cap DOMAIN SecurityGroups}

\* C10: for every processed resource that delegates to the resolver, each
\* ingress rule of its groups gives an edge from the resource using the
\* referenced group to the rule's owner, each egress rule an edge from the
\* owner to that resource
C10_RuleDirection ==
  \A run \in Runs :
    Done(run) =>
      \A owner \in Range(ResourcesOfInterest(run)) :
        /\ InboundTriples(owner, allResources) \subseteq Triples(Returned(run))
        /\ OutboundTriples(owner, allResources) \subseteq Triples(Returned(run))

\* the metadata of a security-group connection: both group lists and a first
\* rule with protocol, port range and direction
HasSecurityGroupMetadata(metadata) ==
  /\ "securityGroups" \in DOMAIN metadata
  /\ DOMAIN metadata.securityGroups = {"source", "target", "rules"}
  /\ Len(metadata.securityGroups.rules) > 0
  /\ {"protocol", "fromPort", "toPort", "direction"}
        \subseteq DOMAIN metadata.securityGroups.rules[1]
  /\ metadata.securityGroups.rules[1].direction \in {"inbound", "outbound"}

\* C11: every connects_to edge of a result, whichever extractor produced it,
\* carries metadata.securityGroups with the source groups, the target groups
\* and a non-empty list of rules whose first entry has protocol, port range
\* and direction.
C11_SecurityGroupMetadata ==
  \A run \in Runs :
    Done(run) =>
      \A k \in 1..Len(Returned(run)) :
        Returned(run)[k].type = RelationshipType.CONNECTS_TO
          => HasSecurityGroupMetadata(Returned(run)[k].metadata)

\* the resource of the inventory a resolver call was made for
Handed(call) == allResources[FindIndex(allResources, LAMBDA r : r.id = call.resource)]

ConnectsTo(edges) ==
  {k \in 1..Len(edges) : edges[k].type = RelationshipType.CONNECTS_TO}

\* C12: the resolver works with the resource's own securityGroups, else with
\* the groups of the SecurityGroups tag, else with the groups of the network
\* configuration, for every resource type that delegates to it; a resource
\* without groups contributes no connects_to edge.
C12_GroupPriority ==
  \A run \in Runs :
    /\ \A i \in 1..Len(resolverCalls[run]) :
          resolverCalls[run][i].groupIds = ResolverGroupIds(Handed(resolverCalls[run][i]))
    /\ \A k \in 1..Len(contributed[run]) :
          LET resource == ResourcesOfInterest(run)[k]
          IN (resource.type \in {"ec2", "aurora-instance", "ecs"}
              /\ ResolverGroupIds(resource) = <<>>)
               => ConnectsTo(contributed[run][k]) = {}

\* C13: if the extraction of one resource fails, the call still returns and the
\* route answers, every resource of the list has had its iteration, and the
\* edges pushed for the other resources are the ones pushed for them by the
\* same request repeated after the fault is over.
C13_FailureIsolated ==
  /\ \A run \in Runs :
        Done(run) => /\ Len(contributed[run]) = Len(ResourcesOfInterest(run))
                     /\ response[run].status = 200
  /\ (Done(1) /\ Done(2)) =>
        \A k \in 1..Len(contributed[1]) :
          ~HitsFailure(ResourcesOfInterest(1)[k], allResources)
            => contributed[1][k] = contributed[2][k]

\* both requests are finished, and in the one served during the fault a
\* resource that met the failure is followed by one that contributed edges
C13_Witness ==
  /\ Done(1) /\ Done(2)
  /\ \E k \in 1..Len(contributed[1]), j \in 1..Len(contributed[1]) :
        /\ k < j
        /\ HitsFailure(ResourcesOfInterest(1)[k], allResources)
        /\ contributed[1][k] # contributed[2][k]
        /\ ~HitsFailure(ResourcesOfInterest(1)[j], allResources)
        /\ contributed[1][j] # <<>>

\* C14: a resource whose extraction meets a failure contributes no edge: what
\* its iteration pushed before the failing step is not in the result.
C14_FailingContributesNothing ==
  Done(1) =>
    \A k \in 1..Len(contributed[1]) :
      HitsFailure(ResourcesOfInterest(1)[k], allResources) => contributed[1][k] = <<>>

\* the calls of one request that fetch the rules of a group
Fetches(run, groupId) ==
  {i \in 1..Len(resolverCalls[run]) :
     resolverCalls[run][i].fetched /\ ArrIncludes(resolverCalls[run][i].groupIds, groupId)}

\* C15: during one call of discoverResourceRelationships the rules of a
\* security group are fetched at most once, however many resources use it.
C15_FetchedOnce ==
  \A run \in Runs : \A groupId \in DOMAIN SecurityGroups :
    Cardinality(Fetches(run, groupId)) <= 1

\* C16: a request during which one provider call never settles still ends.
C16_Terminates == (fault.mode = "hang") ~> Done(1)

\* the resources of the inventory that carry the application
OfApplication(app) ==
  {allResources[k].id : k \in {i \in 1..Len(allResources) : allResources[i].application = app}}

\* C17: with an application filter, resources of the response are the
\* inventory resources of that application and externalResources are exactly
\* the other inventory resources; without a filter, resources is the whole
\* inventory and externalResources is empty.
C17_FocusAndExternal ==
  \A run \in Runs :
    Done(run) =>
      LET resources == response[run].resources
          externalResources == response[run].externalResources
      IN IF application[run] = ""
         THEN resources = allResources /\ externalResources = <<>>
         ELSE /\ Ids(resources) = OfApplication(application[run])
              /\ Ids(externalResources) = Ids(allResources) \ OfApplication(application[run])
              /\ Ids(resources) \cap Ids(externalResources) = {}
              /\ Ids(resources) \cup Ids(externalResources) = Ids(allResources)
              /\ Len(resources) + Len(externalResources) = Len(allResources)

\* an answered request with a filter that splits the inventory in two
C17_Witness ==
  /\ Done(1)
  /\ application[1] # ""
  /\ response[1].resources # <<>>
  /\ response[1].externalResources # <<>>
  /\ \E k \in 1..Len(response[1].externalResources) :
        response[1].externalResources[k].application = "Unknown"

\* C18: when the inventory pull fails entirely the route reports a failure; it
\* never answers with a successful result.
C18_InventoryFailureReported ==
  \A run \in Runs :
    (Done(run) /\ fault = InventoryFault) => response[run].status # 200

\* the effect of a freshly mounted graph has run
FreshlyRendered == fresh /\ ~effectPending

\* a relationship passes the view filter: both endpoints are resources of the
\* view, or one is and external resources are shown
PassesView(rel) ==
  LET sourceIn == rel.sourceId \in Ids(props.resources)
      targetIn == rel.targetId \in Ids(props.resources)
  IN (sourceIn /\ targetIn) \/ (props.showExternalResources /\ (sourceIn \/ targetIn))

\* C19: on a freshly mounted graph, no resources gives 'No resources to
\* display' whatever the relationships; resources of which no relationship
\* passes the view filter give 'No relationships found between resources';
\* otherwise no message is shown.
C19_EmptyStateMessages ==
  FreshlyRendered =>
    message = IF props.resources = <<>> THEN "No resources to display"
              ELSE IF \A k \in 1..Len(props.relationships) : ~PassesView(props.relationships[k])
              THEN "No relationships found between resources"
              ELSE ""

\* a fresh graph without resources and with relationships
C19_Witness ==
  /\ FreshlyRendered
  /\ props.resources = <<>>
  /\ props.relationships # <<>>
  /\ message = "No resources to display"

\* C20: the graph never draws a canvas that has nodes and no link: when no
\* relationship resolves to two nodes the message box is shown instead.
C20_NoEdgelessCanvas ==
  (canvas.drawn /\ canvas.nodes # <<>>) => canvas.links # <<>>


\* cluster c matches the clusterId of instance r by id, by the last segment of
\* the id, or by display name
NamesCluster(r, c) ==
  /\ r.type = "aurora-instance"
  /\ c.type = "aurora"
  /\ r.clusterId # <<>>
  /\ (r.clusterId = c.id \/ r.clusterId = SplitPop(c.id, ":") \/ r.clusterId = c.name)

\* the iterations of request 1 that have finished
Finished == 1..(position[1] - 1)

\* C23: the iteration of a database instance pushes an instance_of edge to
\* every cluster of the full set that its clusterId names by id, by id suffix
\* or by display name, whether or not the cluster is in the focus list
C23_InstanceOfFromInstance ==
  \A k \in Finished :
    \A j \in 1..Len(allResources) :
      NamesCluster(ResourcesOfInterest(1)[k], allResources[j])
        => HasTriple(contributed[1][k], ResourcesOfInterest(1)[k].id, allResources[j].id,
                     RelationshipType.INSTANCE_OF)

\* request 1 discovers the whole graph and its loop has ended
WholeGraphLoopEnded ==
  /\ ~focusResources[1].given
  /\ pc[1] \in {"running", "done"}
  /\ position[1] > Len(allResources)

\* C24: in whole-graph discovery every instance_of edge pushed by the
\* iteration of a database cluster is also pushed by the iteration of the
\* instance that is its source
C24_ClusterPassAddsNothing ==
  WholeGraphLoopEnded =>
    \A k \in Finished :
      allResources[k].type = "aurora" =>
        \A e \in Range(contributed[1][k]) :
          e.type = RelationshipType.INSTANCE_OF =>
            \E j \in Finished :
              /\ allResources[j].id = e.sourceId
              /\ HasTriple(contributed[1][j], e.sourceId, e.targetId,
                           RelationshipType.INSTANCE_OF)

\* the instance_of edges returned to request 1
InstanceOfReturned ==
  {e \in Range(response[1].relationships) : e.type = RelationshipType.INSTANCE_OF}

\* C30: in the result of whole-graph discovery every instance_of edge leads
\* from a database instance to a database cluster, and no instance is the
\* source of two instance_of edges
C30_OneClusterPerInstance ==
  (Done(1) /\ ~focusResources[1].given) =>
    /\ \A e \in InstanceOfReturned :
         /\ \E k \in 1..Len(allResources) :
              allResources[k].id = e.sourceId /\ allResources[k].type = "aurora-instance"
         /\ \E k \in 1..Len(allResources) :
              allResources[k].id = e.targetId /\ allResources[k].type = "aurora"
    /\ \A e \in InstanceOfReturned, f \in InstanceOfReturned :
         e.sourceId = f.sourceId => e.targetId = f.targetId

\* the triple of connection c of instance i with the id of i replaced by the
\* id of cluster c2 on either side
Reattached(c, i, c2) ==
  << IF c.sourceId = i.id THEN c2.id ELSE c.sourceId,
     IF c.targetId = i.id THEN c2.id ELSE c.targetId,
     c.type >>

\* the triples the connections of the instances owned by cluster c2 give
OwnedConnections(c2) ==
  UNION {{Reattached(c, allResources[j], c2) :
            c \in Range(getSecurityGroupConnections(allResources[j], allResources))} :
         j \in {i \in 1..Len(allResources) : NamesCluster(allResources[i], c2)}}

C26_EdgePerIntegration ==
  Done(1) =>
    \A k \in 1..Len(ResourcesOfInterest(1)) :
      LET gateway == ResourcesOfInterest(1)[k]
          integrations == ApiGatewayIntegrations(gateway)
      IN gateway.type = "apigateway" =>
           \A n \in 1..Len(integrations), j \in 1..Len(allResources) :
             (allResources[j].type = "lambda"
              /\ StrIncludes(integrations[n].uri, allResources[j].id))
               => \E e \in Range(Returned(1)) :
                    /\ Triple(e) = <<gateway.id, allResources[j].id, RelationshipType.TRIGGERS>>
                    /\ e.metadata = [method |-> integrations[n].method,
                                     path |-> integrations[n].path]

\* discoverResourceRelationships(all, null) as a function of the inventory
discoverResourceRelationships(all) ==
  Deduplicate(Flatten([k \in 1..Len(all) |-> ExtractorEdges(all[k], all)]), {})

\* the display names and application labels a resource can be given
DisplayNames == {<<"service-test-2">>, <<"database-2-instance-1">>, <<"renamed">>}

Labels == {"test-app2", "shop"}

\* the inventories that differ from all in the display name or the application
\* label of one resource and in nothing else
Relabelled(all) ==
  {[all EXCEPT ![k] = [@ EXCEPT !.name = n, !.application = a]] :
     k \in 1..Len(all), n \in DisplayNames, a \in Labels}

ConnectsToTriples(rels) ==
  {Triple(rels[k]) : k \in ConnectsTo(rels)}

\* C27: whole-graph discovery on an inventory that differs only in display
\* names and application labels returns the same connects_to edges
C27_NamesDoNotMatter ==
  (Done(1) /\ ~focusResources[1].given) =>
    \A other \in Relabelled(allResources) :
      ConnectsToTriples(discoverResourceRelationships(other))
        = ConnectsToTriples(Returned(1))

\* the ids of the nodes on the canvas
NodeIds == {canvas.nodes[k].id : k \in 1..Len(canvas.nodes)}

\* the canvas shows the current properties
Rendered == canvas.drawn /\ ~effectPending

\* the relationships of the properties whose two endpoints are nodes
BetweenNodes ==
  {k \in 1..Len(props.relationships) :
     props.relationships[k].sourceId \in NodeIds /\ props.relationships[k].targetId \in NodeIds}

\* C28: the nodes are the resources of the view plus external resources that
\* a drawn relationship names, flagged isExternal exactly when they are not
\* resources of the view; the links are exactly the relationships whose two
\* endpoints are nodes, also between two external nodes; without
\* showExternalResources there is no external node and every link joins two
\* resources of the view
C28_NodesAndLinks ==
  Rendered =>
    /\ Ids(props.resources) \subseteq NodeIds
    /\ \A k \in 1..Len(canvas.nodes) :
         canvas.nodes[k].isExternal <=> canvas.nodes[k].id \notin Ids(props.resources)
    /\ \A k \in 1..Len(canvas.nodes) :
         canvas.nodes[k].isExternal =>
           \E n \in BetweenNodes :
             canvas.nodes[k].id \in {props.relationships[n].sourceId,
                                     props.relationships[n].targetId}
    /\ {<<canvas.links[k].source, canvas.links[k].target, canvas.links[k].type>> :
          k \in 1..Len(canvas.links)}
         = {Triple(props.relationships[n]) : n \in BetweenNodes}
    /\ ~props.showExternalResources =>
         /\ NodeIds \subseteq Ids(props.resources)
         /\ \A k \in 1..Len(canvas.links) :
              {canvas.links[k].source, canvas.links[k].target} \subseteq Ids(props.resources)

\* node k of the canvas is pinned
Pinned(k) == canvas.nodes[k].fx # Null /\ canvas.nodes[k].fy # Null

\* no coordinate of node k is pinned
Free(k) == canvas.nodes[k].fx = Null /\ canvas.nodes[k].fy = Null

\* a node is pinned exactly while it is the subject of the drag gesture
PinnedWhileDragged ==
  \A k \in 1..Len(canvas.nodes) :
    IF pointer.dragging = k THEN Pinned(k) ELSE Free(k)

\* one event on a drawn graph: dragstart pins the subject where it is, drag
\* moves the pin to the event's point, dragend clears it, and the pin of every
\* other node stays as it was
DragStep ==
  (canvas.drawn /\ canvas'.drawn) =>
    /\ (pointer.dragging = 0 /\ pointer'.dragging # 0) =>
         /\ canvas'.nodes[pointer'.dragging].fx = <<canvas.nodes[pointer'.dragging].x>>
         /\ canvas'.nodes[pointer'.dragging].fy = <<canvas.nodes[pointer'.dragging].y>>
    /\ (pointer.dragging # 0 /\ pointer'.dragging = pointer.dragging) =>
         /\ canvas'.nodes[pointer.dragging].fx = <<pointer'.x>>
         /\ canvas'.nodes[pointer.dragging].fy = <<pointer'.y>>
    /\ (pointer.dragging # 0 /\ pointer'.dragging = 0) =>
         /\ canvas'.nodes[pointer.dragging].fx = Null
         /\ canvas'.nodes[pointer.dragging].fy = Null
    /\ \A k \in 1..Len(canvas.nodes) :
         k \notin {pointer.dragging, pointer'.dragging} =>
           /\ canvas'.nodes[k].fx = canvas.nodes[k].fx
           /\ canvas'.nodes[k].fy = canvas.nodes[k].fy

\* C21: through any sequence of dragstart, drag and dragend events a node is
\* pinned exactly while it is dragged: dragstart pins it at its position, drag
\* moves the pin to the pointer, dragend clears the pin, and no event changes
\* the pin of another node
C21_PinnedWhileDragged == []PinnedWhileDragged /\ [][DragStep]_vars

\* a dragged node whose pin has been moved away from where the node is drawn,
\* next to a node that is free
C21_Witness ==
  /\ pointer.dragging # 0
  /\ canvas.nodes[pointer.dragging].fx = <<pointer.x>>
  /\ canvas.nodes[pointer.dragging].fx # <<canvas.nodes[pointer.dragging].x>>
  /\ \E k \in 1..Len(canvas.nodes) : k # pointer.dragging /\ Free(k)

\* the nodes and the links drawn with the wide stroke
HighlightedNodes == {k \in 1..Len(canvas.nodes) : canvas.nodes[k].strokeWidth = "3"}

HighlightedLinks == {k \in 1..Len(canvas.links) : canvas.links[k].strokeWidth = "4"}

\* the links of the canvas that start or end at node d
Incident(d) ==
  {k \in 1..Len(canvas.links) :
     canvas.nodes[d].id \in {canvas.links[k].source, canvas.links[k].target}}

\* the nodes that share a link with node d
Neighbours(d) ==
  {k \in 1..Len(canvas.nodes) :
     \E n \in Incident(d) :
       canvas.nodes[k].id \in {canvas.links[n].source, canvas.links[n].target}}

\* C22: after a mouseover on node d exactly d and the nodes sharing a link
\* with d are highlighted together with exactly the links incident to d; after
\* a mouseout nothing is highlighted, whatever hovers came before; every
\* stroke is one of the two widths of its kind
C22_HoverHighlight ==
  canvas.drawn =>
    /\ \A k \in 1..Len(canvas.nodes) : canvas.nodes[k].strokeWidth \in {"3", "1.5"}
    /\ \A k \in 1..Len(canvas.links) : canvas.links[k].strokeWidth \in {"4", "2"}
    /\ IF pointer.over # 0
       THEN /\ HighlightedNodes = {pointer.over} \cup Neighbours(pointer.over)
            /\ HighlightedLinks = Incident(pointer.over)
       ELSE HighlightedNodes = {} /\ HighlightedLinks = {}

\* a hovered node with a highlighted neighbour, a plain node and a plain link
C22_Witness ==
  /\ canvas.drawn
  /\ pointer.over # 0
  /\ \E k \in HighlightedNodes : k # pointer.over
  /\ \E k \in 1..Len(canvas.nodes) : canvas.nodes[k].strokeWidth = "1.5"
  /\ HighlightedLinks # {}
  /\ \E k \in 1..Len(canvas.links) : canvas.links[k].strokeWidth = "2"

\* the nodes and the relationships the current properties give
CurrentGraphResources ==
  GraphResources(props.resources, props.relationships, props.resources,
                 props.externalResources, props.showExternalResources)

CurrentRelationships ==
  RelevantRelationships(props.resources, props.relationships, props.showExternalResources)

\* C29: once the effect has run for the latest change of the properties, the
\* message is shown exactly when the current node set or the current filtered
\* edge set is empty, and the graph is drawn otherwise
C29_DisplayMatchesInputs ==
  ~effectPending =>
    /\ (message # "") <=> (CurrentGraphResources = <<>> \/ CurrentRelationships = <<>>)
    /\ (message = "") => canvas.drawn
====
